---- MODULE Spec2Model ----
(***************************************************************************)
(* Model of staging/webpack.config.js: the watch-mode path filter          *)
(* (ignored), the linked-file mirror (maybeSync) and the watch file system *)
(* wrapper (FilterIgnoringWatchFileSystem).                                *)
(*                                                                         *)
(* Strings are sequences of tokens.  A token is one character ("/", a      *)
(* letter, "."), the two characters "..", the twelve characters of the     *)
(* literal 'node_modules' (token "N"), or a proper suffix of that literal  *)
(* left behind by a slice that cuts through it (token "F").  The letters   *)
(* used in paths are not characters of 'node_modules', so a substring test *)
(* on tokens agrees with the substring test on characters.                 *)
(***************************************************************************)
EXTENDS Integers, Sequences, FiniteSets, Bags, TLC

\* ------------------------------------------------------------------ bounds
MaxCached == 2      \* distinct paths classified in one run
MaxListeners == 3   \* listeners handed to fs.watchFile in one run
MaxVer == 2         \* writes to the linked source file in one run
MaxErrors == 1      \* copy failures reported in one run
MaxEmits == 3       \* afterEmit events in one run
MaxTickVer == 3     \* writes to the linked source file in one run of the mirror at work

\* ------------------------------------------------------- program constants
MarkerLen == 12     \* 'node_modules'.length
Sentinel == 1       \* the value set for ignored paths

SEP == <<"/">>
Marker == <<"N">>

\* the element of a one-element set
TheOne(S) == CHOOSE x \in S : TRUE

\* ----------------------------------------------------------------- strings
CharLen(t) == IF t = "N" THEN MarkerLen ELSE IF t = ".." THEN 2 ELSE 1

RECURSIVE StrLen(_)
StrLen(s) == IF s = <<>> THEN 0 ELSE CharLen(Head(s)) + StrLen(Tail(s))

\* String.prototype.slice(n) for 0 <= n
RECURSIVE Slice(_, _)
Slice(s, n) ==
  IF n = 0 \/ s = <<>> THEN s
  ELSE IF CharLen(Head(s)) <= n THEN Slice(Tail(s), n - CharLen(Head(s)))
  ELSE <<"F">> \o Tail(s)

\* the set of token positions at which sub occurs in s
Occurrences(s, sub) ==
  { i \in 1..(Len(s) - Len(sub) + 1) : SubSeq(s, i, i + Len(sub) - 1) = sub }

\* s.indexOf(sub) !== -1
Includes(s, sub) == Occurrences(s, sub) # {}

\* sub is a prefix of s
StartsWith(s, sub) == 1 \in Occurrences(s, sub)

\* split on the separator, keeping empty segments
RECURSIVE SplitFrom(_, _)
SplitFrom(s, cur) ==
  IF s = <<>> THEN <<cur>>
  ELSE IF Head(s) = "/" THEN <<cur>> \o SplitFrom(Tail(s), <<>>)
  ELSE SplitFrom(Tail(s), Append(cur, Head(s)))

Segments(s) == SplitFrom(s, <<>>)

\* path normalisation of an absolute path: drop '' and '.', pop on '..'
RECURSIVE NormSegs(_, _)
NormSegs(segs, acc) ==
  IF segs = <<>> THEN acc
  ELSE LET g == Head(segs) IN
       IF g = <<>> \/ g = <<".">> THEN NormSegs(Tail(segs), acc)
       ELSE IF g = <<"..">>
            THEN NormSegs(Tail(segs),
                          IF acc = <<>> THEN acc ELSE SubSeq(acc, 1, Len(acc) - 1))
            ELSE NormSegs(Tail(segs), Append(acc, g))

RECURSIVE JoinSegs(_)
JoinSegs(segs) ==
  IF segs = <<>> THEN <<>> ELSE SEP \o Head(segs) \o JoinSegs(Tail(segs))

NormalizeAbs(s) ==
  LET segs == NormSegs(Segments(s), <<>>) IN
  IF segs = <<>> THEN SEP ELSE JoinSegs(segs)

\* process.cwd()
Cwd == <<"/", "w">>

\* plib.resolve(path)
Resolve(p) ==
  IF p # <<>> /\ Head(p) = "/" THEN NormalizeAbs(p)
  ELSE NormalizeAbs(Cwd \o SEP \o p)

\* plib.join(a, b) for an absolute a
PathJoin(a, b) == NormalizeAbs(a \o SEP \o b)

\* ------------------------------------------------------------ file system
\* the linked source file whose content and existence change during a run
DynSource == <<"/", "L", "/", "x">>

StaticFiles ==
  { <<"/", "a", "/", "x">>, <<"/", "a", "/", "v">>,
    <<"/", "a", "/", "N", "/", "x">>, <<"/", "a", "/", "N", "/", "b", "/", "x">>,
    <<"/", "a", "/", "N", "x", "/", "f">>, <<"/", "c", "/", "a", "/", "x">>,
    <<"/", "a", "b", "/", "x">>, <<"/", "L", "/", "y">>, <<"/", "M", "/", "x">>,
    <<"/", "L", "/", "a", "/", "x">>, <<"/", "L", "/", "N", "x", "/", "f">> }

StaticDirs ==
  { <<"/", "a">>, <<"/", "a", "/", "k">>, <<"/", "L">>, <<"/", "M">>,
    <<"/", "L", "/", "k">>, <<"/", "a", "/", "N">>, <<"/", "a", "/", "N", "/", "b">> }

\* symbolic links: link path -> target path
Links ==
  ( <<"/", "a", "/", "y">> :> <<"/", "L", "/", "y">> ) @@
  ( <<"/", "L", "/", "v">> :> DynSource )

\* local files that a listener may overwrite
LocalDests == { <<"/", "a", "/", "x">>, <<"/", "a", "/", "v">> }

ENOENT == <<"ENOENT">>

\* ------------------------------------------------------------------- state
VARIABLES
  watched,          \* the watched table, in key order: <<[name, rootPath]>>
  watchedPackages,  \* jlab.watchedPackages: name -> linked package directory
  ignoreCache,      \* resolved path -> BOOLEAN
  listeners,        \* bag of [source, localPath]: listeners given to fs.watchFile
  statWatchers,     \* source -> stat seen by the last poll (-1: not polled yet)
  srcExists,        \* does DynSource exist
  srcVer,           \* content (and mtime) stamp of DynSource
  localContent,     \* content stamp of each file of LocalDests (0: its own)
  consoleErrors,    \* number of console.error calls
  watcher,          \* the current watch(): what wfs.watch got, and the closure
  uTime,            \* the time value the wrapped watcher currently reports
  out,              \* what the last call returned or handed to its callback
  staticDir,        \* FrontEndPlugin.staticDir ("": none configured)
  first,            \* FrontEndPlugin._first
  destExists,       \* does the directory staticDir exist
  destEntries,      \* the entries of the directory staticDir
  buildEntries,     \* the entries of the directory buildDir
  emitted           \* one record for every afterEmit event so far, in order

\* the plugin that publishes the build output, and the directories it works on
publisher == <<staticDir, first, destExists, destEntries, buildEntries, emitted>>

\* the classifier, the mirror and the watch wrapper
classifier == <<watched, watchedPackages, ignoreCache, listeners, statWatchers,
                srcExists, srcVer, localContent, consoleErrors, watcher, uTime>>

vars == <<watched, watchedPackages, ignoreCache, listeners, statWatchers,
          srcExists, srcVer, localContent, consoleErrors, watcher, uTime, out,
          staticDir, first, destExists, destEntries, buildEntries, emitted>>

\* ------------------------------------------------------------ fs primitives
FollowLink(p) == IF p \in DOMAIN Links THEN Links[p] ELSE p

Exists(q) == q \in StaticFiles \/ q \in StaticDirs \/ (q = DynSource /\ srcExists)

\* fs.realpathSync(p): the canonical path, or ENOENT when it throws
RealpathSync(p) ==
  LET q == FollowLink(Resolve(p)) IN IF Exists(q) THEN q ELSE ENOENT

\* fs.statSync(p): "file", "dir", or "ENOENT" when it throws
StatSync(p) ==
  LET q == FollowLink(Resolve(p)) IN
  IF q \in StaticDirs THEN "dir" ELSE IF Exists(q) THEN "file" ELSE "ENOENT"

\* the stat a poll of source s reads (0: no such file, all fields zeroed)
CurStat(s) == IF s = DynSource THEN (IF srcExists THEN srcVer ELSE 0) ELSE 1

\* maybeSync comparing the source with the local path as given, unresolved
MaybeSyncUnresolved(localPath, name, rest) ==
  LET stats == StatSync(localPath)
      source == RealpathSync(PathJoin(watchedPackages[name], rest))
  IN  IF stats = "ENOENT" THEN [kind |-> "throw", source |-> ENOENT]
      ELSE IF stats # "file" THEN [kind |-> "return", source |-> ENOENT]
      ELSE IF source = ENOENT THEN [kind |-> "throw", source |-> ENOENT]
      ELSE IF source = localPath
           THEN [kind |-> "return", source |-> source]
           ELSE [kind |-> "watch", source |-> source]

\* ---------------------------------------------------------------- maybeSync
\* the outcome of maybeSync(localPath, name, rest):
\*   "throw" (statSync or realpathSync threw), "return", or "watch" with source
MaybeSync(localPath, name, rest) ==
  LET stats == StatSync(localPath)
      source == RealpathSync(PathJoin(watchedPackages[name], rest))
  IN  IF stats = "ENOENT" THEN [kind |-> "throw", source |-> ENOENT]
      ELSE IF stats # "file" THEN [kind |-> "return", source |-> ENOENT]
      ELSE IF source = ENOENT THEN [kind |-> "throw", source |-> ENOENT]
      ELSE IF source = RealpathSync(localPath)
           THEN [kind |-> "return", source |-> source]
           ELSE [kind |-> "watch", source |-> source]

\* a registry keyed by source that drops the listener of a source already in it
WatchFileOncePerSource(st, source, localPath) ==
  IF source \in DOMAIN st.watchers THEN st
  ELSE [st EXCEPT
          !.listeners = @ (+) SetToBag({[source |-> source, localPath |-> localPath]}),
          !.watchers = @ @@ (source :> -1)]

\* fs.watchFile(source, {interval: 500}, listener): one stat watcher per
\* file name, every call adds its listener to it
WatchFile(st, source, localPath) ==
  [st EXCEPT
     !.listeners = @ (+) SetToBag({[source |-> source, localPath |-> localPath]}),
     !.watchers = IF source \in DOMAIN @ THEN @ ELSE @ @@ (source :> -1)]

\* ------------------------------------------------------------------ ignored
\* a cache that is never found to hold the path
CacheMiss(cache, path) == FALSE

\* path in ignoreCache
CacheHit(cache, path) == path \in DOMAIN cache

\* path !== rootPath && !contained, negated
Matches(path, rootPath) == path = rootPath \/ Includes(path, rootPath \o SEP)

\* rest.indexOf('node_modules') !== -1
HasMarker(rest) == Includes(rest, Marker)

\* a scan that goes on to the later roots when a root that contains the
\* path finds 'node_modules' in the rest: it stops at the first root that
\* accepts the path, and at the first that contains it if none accepts
FirstAcceptingMatch(path) ==
  LET hits == { i \in 1..Len(watched) : Matches(path, watched[i].rootPath) }
      clean == { i \in hits : ~HasMarker(Slice(path, StrLen(watched[i].rootPath))) }
      from == IF clean = {} THEN hits ELSE clean
  IN  IF from = {} THEN 0 ELSE CHOOSE i \in from : \A j \in from : i <= j

\* the index of the root at which Object.keys(watched).some(...) stops, 0 if none
FirstMatch(path) ==
  LET hits == { i \in 1..Len(watched) : Matches(path, watched[i].rootPath) } IN
  IF hits = {} THEN 0 ELSE CHOOSE i \in hits : \A j \in hits : i <= j

CacheSet(cache, path, v) ==
  [q \in DOMAIN cache \cup {path} |-> IF q = path THEN v ELSE cache[q]]

\* ignoreCache[path] = ignore; return ignore
Done(st, path, ignore) ==
  [cache |-> CacheSet(st.cache, path, ignore), listeners |-> st.listeners,
   watchers |-> st.watchers, value |-> IF ignore THEN "true" ELSE "false"]

\* a call that writes ignoreCache[path] also when maybeSync threw, as a
\* finally around the scan would
AcceptCachingFailure(st, path, sync) ==
  IF sync.kind = "throw"
    THEN [cache |-> CacheSet(st.cache, path, FALSE), listeners |-> st.listeners,
          watchers |-> st.watchers, value |-> "throw"]
  ELSE IF sync.kind = "watch"
    THEN Done(WatchFile(st, sync.source, path), path, FALSE)
  ELSE Done(st, path, FALSE)

\* ignore = false; maybeSync(path, name, rest) with outcome sync; return true
\* from the scan, then cache and return, unless maybeSync threw
Accept(st, path, sync) ==
  IF sync.kind = "throw"
    THEN [cache |-> st.cache, listeners |-> st.listeners,
          watchers |-> st.watchers, value |-> "throw"]
  ELSE IF sync.kind = "watch"
    THEN Done(WatchFile(st, sync.source, path), path, FALSE)
  ELSE Done(st, path, FALSE)

\* one call ignored(raw) from state st = [cache, listeners, watchers];
\* the result carries value "true", "false" or "throw"
Ignored(st, raw) ==
  TheOne({
    IF CacheHit(st.cache, path)
      THEN [cache |-> st.cache, listeners |-> st.listeners,
            watchers |-> st.watchers,
            value |-> IF st.cache[path] THEN "true" ELSE "false"]
      ELSE TheOne({
        IF i = 0 THEN Done(st, path, TRUE)
        ELSE TheOne({
          IF HasMarker(rest) THEN Done(st, path, TRUE)
          ELSE TheOne({ Accept(st, path, sync) :
                        sync \in {MaybeSync(path, watched[i].name, rest)} })
          : rest \in {Slice(path, StrLen(watched[i].rootPath))} })
        : i \in {FirstMatch(path)} })
    : path \in {Resolve(raw)} })

Now == [cache |-> ignoreCache, listeners |-> listeners, watchers |-> statWatchers]

WithinBounds(st) ==
  /\ Cardinality(DOMAIN st.cache) <= MaxCached
  /\ BagCardinality(st.listeners) <= MaxListeners

\* ------------------------------------------------------------------ inputs
ClassifyInputs ==
  { <<"/", "a", "/", "x">>,                      \* file in root A, linked
    <<"/", "a", "/", ".", "/", "x">>,            \* the same file, unresolved
    <<"/", "a", "/", "v">>,                      \* file whose source links to DynSource
    <<"/", "a", "/", "y">>,                      \* symbolic link to its own source
    <<"/", "a", "/", "z">>,                      \* no such file
    <<"/", "a", "/", "k">>,                      \* directory in root A
    <<"..", "/", "a">>,                          \* root A itself, relative
    <<"/", "a", "/", "N", "/", "x">>,            \* under A/node_modules
    <<"/", "a", "/", "N", "/", "b", "/", "x">>,  \* in root B, nested in A/node_modules
    <<"/", "a", "/", "N", "x", "/", "f">>,       \* in directory node_modulesx
    <<"/", "c", "/", "a", "/", "x">>,            \* outside, contains '/a/'
    <<"/", "a", "b", "/", "x">> }                \* outside, starts with '/a'

RootA == [name |-> "A", rootPath |-> <<"/", "a">>]
RootB == [name |-> "B", rootPath |-> <<"/", "a", "/", "N", "/", "b">>]

\* the key orders of jlab.watchedPackages considered
RootOrders == { <<RootA, RootB>>, <<RootB, RootA>> }

LinkedDirs == ("A" :> <<"/", "L">>) @@ ("B" :> <<"/", "M">>)

\* the file and directory lists webpack hands to watch()
WatchInputs ==
  { [files |-> << <<"/", "a", "/", "x">>, <<"/", "a", "/", "N", "/", "x">> >>,
     dirs |-> << >>],
    [files |-> << <<"/", "a", "/", "x">> >>,
     dirs |-> << <<"/", "a", "/", "N">> >>],
    [files |-> << <<"/", "a", "/", "x">>, <<"/", "a", "/", "z">> >>,
     dirs |-> << >>],
    [files |-> << <<"/", "a", "/", ".", "/", "x">>, <<"/", "a", "/", "x">> >>,
     dirs |-> << <<"/", "a">> >>],
    [files |-> << <<"/", "a", "b", "/", "x">>, <<"/", "a", "b", "/", "x">> >>,
     dirs |-> << <<"/", "a", "/", "N">> >>] }

\* time values the wrapped watcher reports
TimeValues == {7, 8}

NoWatcher == [status |-> "none"]

\* ------------------------------------------------------------------- Init
Init ==
  /\ watched \in RootOrders
  /\ watchedPackages = LinkedDirs
  /\ ignoreCache = << >>
  /\ listeners = EmptyBag
  /\ statWatchers = << >>
  /\ srcExists \in BOOLEAN
  /\ srcVer = 1
  /\ localContent = [d \in LocalDests |-> 0]
  /\ consoleErrors = 0
  /\ watcher = NoWatcher
  /\ uTime = 7
  /\ out = [op |-> "none"]
  /\ staticDir = ""
  /\ first = TRUE
  /\ destExists = FALSE
  /\ destEntries = {}
  /\ buildEntries = {}
  /\ emitted = << >>

\* ---------------------------------------------------------------- actions
\* a direct call ignored(raw)
Classify(raw) ==
  \E r \in {Ignored(Now, raw)} :
  /\ WithinBounds(r)
  /\ ignoreCache' = r.cache
  /\ listeners' = r.listeners
  /\ statWatchers' = r.watchers
  /\ out' = [op |-> "ignored", path |-> raw, value |-> r.value]
  /\ UNCHANGED <<publisher, watched, watchedPackages, srcExists, srcVer, localContent,
                 consoleErrors, watcher, uTime>>

\* a listener with no try/catch: the first copySync that throws ends the
\* 'change' event, with nothing copied and nothing reported
RunListenersUncaught(s, cur, fail) ==
  LET mine == { l \in BagToSet(listeners) : l.source = s }
  IN  IF cur = 0 \/ fail # {}
        THEN UNCHANGED <<localContent, consoleErrors>>
        ELSE /\ localContent' =
                  [d \in LocalDests |->
                     IF d \in { l.localPath : l \in mine } /\ s = DynSource
                       THEN srcVer ELSE localContent[d]]
             /\ UNCHANGED consoleErrors

\* a listener that does not look at curr.nlink: with the source gone every
\* copySync throws and is reported
RunListenersNoLinkCheck(s, cur, fail) ==
  LET mine == { l \in BagToSet(listeners) : l.source = s }
      copied == { l.localPath : l \in { m \in mine : m.localPath \notin fail } }
  IN  IF cur = 0
        THEN /\ UNCHANGED localContent
             /\ consoleErrors' = consoleErrors + Cardinality(mine)
        ELSE /\ localContent' =
                  [d \in LocalDests |->
                     IF d \in copied /\ s = DynSource THEN srcVer ELSE localContent[d]]
             /\ consoleErrors' = consoleErrors +
                  Cardinality({ l \in mine : l.localPath \in fail })

\* the listener of maybeSync, run for every listener of source s by one
\* 'change' event; fail is the set of local paths whose copySync throws
RunListeners(s, cur, fail) ==
  LET mine == { l \in BagToSet(listeners) : l.source = s }
      copied == { l.localPath : l \in { m \in mine : m.localPath \notin fail } }
  IN  IF cur = 0
        THEN UNCHANGED <<localContent, consoleErrors>>
        ELSE /\ localContent' =
                  [d \in LocalDests |->
                     IF d \in copied /\ s = DynSource THEN srcVer ELSE localContent[d]]
             /\ consoleErrors' = consoleErrors +
                  Cardinality({ l \in mine : l.localPath \in fail })

\* one poll of the stat watcher of source s: the listeners run only when the
\* stat differs from the one seen by the previous poll, or when the first
\* poll finds no file
Poll(s) ==
  /\ s \in DOMAIN statWatchers
  /\ LET cur == CurStat(s)
         prev == statWatchers[s]
         fire == (prev = -1 /\ cur = 0) \/ (prev # -1 /\ cur # prev)
     IN  /\ statWatchers' = [statWatchers EXCEPT ![s] = cur]
         /\ IF fire
              THEN \E fail \in SUBSET { l.localPath :
                                          l \in { m \in BagToSet(listeners) : m.source = s } } :
                     /\ RunListeners(s, cur, fail)
                     /\ consoleErrors' <= MaxErrors
              ELSE UNCHANGED <<localContent, consoleErrors>>
  /\ UNCHANGED <<publisher, watched, watchedPackages, ignoreCache, listeners, srcExists,
                 srcVer, watcher, uTime, out>>

\* the linked source file is rewritten, for the cap-th time at most
WriteSourceBelow(cap) ==
  /\ srcExists /\ srcVer < cap
  /\ srcVer' = srcVer + 1
  /\ UNCHANGED <<publisher, watched, watchedPackages, ignoreCache, listeners, statWatchers,
                 srcExists, localContent, consoleErrors, watcher, uTime, out>>

WriteSource == WriteSourceBelow(MaxVer)

\* the linked source file is deleted
DeleteSource ==
  /\ srcExists
  /\ srcExists' = FALSE
  /\ UNCHANGED <<publisher, watched, watchedPackages, ignoreCache, listeners, statWatchers,
                 srcVer, localContent, consoleErrors, watcher, uTime, out>>

\* the linked source file is created again
CreateSourceBelow(cap) ==
  /\ ~srcExists /\ srcVer < cap
  /\ srcExists' = TRUE
  /\ srcVer' = srcVer + 1
  /\ UNCHANGED <<publisher, watched, watchedPackages, ignoreCache, listeners, statWatchers,
                 localContent, consoleErrors, watcher, uTime, out>>

CreateSource == CreateSourceBelow(MaxVer)

\* ------------------------------------------- FilterIgnoringWatchFileSystem
Range(seq) == { seq[i] : i \in 1..Len(seq) }

\* seq.filter(f) where f calls ignored and keeps the paths whose value is
\* keep; the calls run in order from state st and stop at the first throw
RECURSIVE Filter(_, _, _)
Filter(st, seq, keep) ==
  IF seq = <<>> THEN [st |-> st, kept |-> <<>>, thrown |-> FALSE]
  ELSE TheOne({
    IF r.value = "throw"
      THEN [st |-> [cache |-> r.cache, listeners |-> r.listeners,
                    watchers |-> r.watchers],
            kept |-> <<>>, thrown |-> TRUE]
      ELSE TheOne({
        [st |-> t.st,
         kept |-> IF r.value = keep THEN <<Head(seq)>> \o t.kept ELSE t.kept,
         thrown |-> t.thrown]
        : t \in {Filter([cache |-> r.cache, listeners |-> r.listeners,
                         watchers |-> r.watchers], Tail(seq), keep)} })
    : r \in {Ignored(st, Head(seq))} })

\* files.filter(ignored)
IgnoredFilter(st, seq) == Filter(st, seq, "true")

\* a filter that keeps every path
KeepAllFilter(st, seq) == [st |-> st, kept |-> seq, thrown |-> FALSE]

\* files.filter(notIgnored), notIgnored = path => !this.ignored(path)
NotIgnoredFilter(st, seq) == Filter(st, seq, "false")

\* map.set(path, 1) for every path of paths
Overlay(map, paths) ==
  [q \in DOMAIN map \cup paths |-> IF q \in paths THEN Sentinel ELSE map[q]]

\* a callback that overlays the ignored files but not the ignored directories
WrappedCallbackFilesOnly(w, args) ==
  IF args[1] # "null"
    THEN [onChange |-> << <<args[1]>> >>,
          fileTimestamps |-> args[5], dirTimestamps |-> args[6]]
    ELSE LET fts == Overlay(args[5], Range(w.ignoredFiles))
         IN  [onChange |-> << <<args[1], args[2], args[3], args[4], fts, args[6],
                                args[7]>> >>,
              fileTimestamps |-> fts, dirTimestamps |-> args[6]]

\* a callback that overlays both maps before it looks at the error
WrappedCallbackOverlayFirst(w, args) ==
  LET fts == Overlay(args[5], Range(w.ignoredFiles))
      dts == Overlay(args[6], Range(w.ignoredDirs))
  IN  IF args[1] # "null"
        THEN [onChange |-> << <<args[1]>> >>,
              fileTimestamps |-> fts, dirTimestamps |-> dts]
        ELSE [onChange |-> << <<args[1], args[2], args[3], args[4], fts, dts,
                                args[7]>> >>,
              fileTimestamps |-> fts, dirTimestamps |-> dts]

\* the callback watch() hands to wfs.watch, called with args =
\* <<err, filesModified, dirsModified, missingModified, fileTimestamps,
\*   dirTimestamps, removedFiles>>: the calls of callback it makes, and the
\* two timestamp maps as it leaves them
WrappedCallback(w, args) ==
  IF args[1] # "null"
    THEN [onChange |-> << <<args[1]>> >>,
          fileTimestamps |-> args[5], dirTimestamps |-> args[6]]
    ELSE LET fts == Overlay(args[5], Range(w.ignoredFiles))
             dts == Overlay(args[6], Range(w.ignoredDirs))
         IN  [onChange |-> << <<args[1], args[2], args[3], args[4], fts, dts,
                                args[7]>> >>,
              fileTimestamps |-> fts, dirTimestamps |-> dts]

\* an accessor that returns what the wrapped watcher returned, as it is
HandleGetTimestampsRaw(w, fetched) == fetched

\* getFileTimestamps of the returned handle, fetched = watcher.getFileTimestamps()
HandleGetFileTimestamps(w, fetched) == Overlay(fetched, Range(w.ignoredFiles))

\* getContextTimestamps of the returned handle
HandleGetContextTimestamps(w, fetched) == Overlay(fetched, Range(w.ignoredDirs))

\* the maps the wrapped watcher holds for the paths it was given
UnderlyingFileTimestamps == [p \in Range(watcher.files) |-> uTime]
UnderlyingDirTimestamps == [p \in Range(watcher.dirs) |-> uTime]

\* a path that is in no watch list
Stray == <<"/", "a", "/", "q">>

\* watch(files, dirs, ...)
Watch(w) ==
  \E f1 \in {IgnoredFilter(Now, w.files)} :
  \E d1 \in {IF f1.thrown THEN f1 ELSE IgnoredFilter(f1.st, w.dirs)} :
  \E f2 \in {IF d1.thrown THEN d1 ELSE NotIgnoredFilter(d1.st, w.files)} :
  \E d2 \in {IF f2.thrown THEN f2 ELSE NotIgnoredFilter(f2.st, w.dirs)} :
  LET thrown == d2.thrown
      final == d2.st
  IN  /\ WithinBounds(final)
      /\ ignoreCache' = final.cache
      /\ listeners' = final.listeners
      /\ statWatchers' = final.watchers
      /\ IF thrown
           THEN /\ out' = [op |-> "watch", value |-> "throw"]
                /\ UNCHANGED watcher
           ELSE /\ out' = [op |-> "watch", value |-> "handle"]
                /\ watcher' = [status |-> "watching",
                               inFiles |-> w.files, inDirs |-> w.dirs,
                               ignoredFiles |-> f1.kept, ignoredDirs |-> d1.kept,
                               files |-> f2.kept, dirs |-> d2.kept]
      /\ UNCHANGED <<publisher, watched, watchedPackages, srcExists, srcVer, localContent,
                     consoleErrors, uTime>>

\* the wrapped watcher reports a batch: it calls the callback it was given
Callback(err, changed) ==
  /\ watcher.status = "watching"
  /\ LET args == <<err,
                   IF changed THEN watcher.files ELSE <<>>,
                   IF changed THEN watcher.dirs ELSE <<>>,
                   IF changed THEN <<Stray>> ELSE <<>>,
                   UnderlyingFileTimestamps, UnderlyingDirTimestamps,
                   IF changed THEN <<Stray>> ELSE <<>> >>
         r == WrappedCallback(watcher, args)
     IN  out' = [op |-> "callback", supplied |-> args, onChange |-> r.onChange,
                 fileTimestamps |-> r.fileTimestamps,
                 dirTimestamps |-> r.dirTimestamps]
  /\ UNCHANGED <<publisher, watched, watchedPackages, ignoreCache, listeners, statWatchers,
                 srcExists, srcVer, localContent, consoleErrors, watcher, uTime>>

\* handle.getFileTimestamps()
GetFileTimestamps ==
  /\ watcher.status # "none"
  /\ out' = [op |-> "getFileTimestamps", fetched |-> UnderlyingFileTimestamps,
             result |-> HandleGetFileTimestamps(watcher, UnderlyingFileTimestamps)]
  /\ UNCHANGED <<publisher, watched, watchedPackages, ignoreCache, listeners, statWatchers,
                 srcExists, srcVer, localContent, consoleErrors, watcher, uTime>>

\* handle.getContextTimestamps()
GetContextTimestamps ==
  /\ watcher.status # "none"
  /\ out' = [op |-> "getContextTimestamps", fetched |-> UnderlyingDirTimestamps,
             result |-> HandleGetContextTimestamps(watcher, UnderlyingDirTimestamps)]
  /\ UNCHANGED <<publisher, watched, watchedPackages, ignoreCache, listeners, statWatchers,
                 srcExists, srcVer, localContent, consoleErrors, watcher, uTime>>

\* a close() that also stops the mirror: fs.unwatchFile for every source
CloseUnwatching ==
  /\ watcher.status \in {"watching", "paused"}
  /\ watcher' = [watcher EXCEPT !.status = "closed"]
  /\ listeners' = EmptyBag
  /\ statWatchers' = << >>
  /\ out' = [op |-> "close"]
  /\ UNCHANGED <<publisher, watched, watchedPackages, ignoreCache,
                 srcExists, srcVer, localContent, consoleErrors, uTime>>

\* handle.close(): watcher.close()
Close ==
  /\ watcher.status \in {"watching", "paused"}
  /\ watcher' = [watcher EXCEPT !.status = "closed"]
  /\ out' = [op |-> "close"]
  /\ UNCHANGED <<publisher, watched, watchedPackages, ignoreCache, listeners, statWatchers,
                 srcExists, srcVer, localContent, consoleErrors, uTime>>

\* handle.pause(): watcher.pause()
Pause ==
  /\ watcher.status = "watching"
  /\ watcher' = [watcher EXCEPT !.status = "paused"]
  /\ out' = [op |-> "pause"]
  /\ UNCHANGED <<publisher, watched, watchedPackages, ignoreCache, listeners, statWatchers,
                 srcExists, srcVer, localContent, consoleErrors, uTime>>

\* the files the wrapped watcher tracks change on disk
UnderlyingChange ==
  /\ watcher.status # "none"
  /\ uTime' \in TimeValues \ {uTime}
  /\ UNCHANGED <<publisher, watched, watchedPackages, ignoreCache, listeners, statWatchers,
                 srcExists, srcVer, localContent, consoleErrors, watcher, out>>

\* the classifier and the mirror, with the linked source file changing
Next ==
  \/ \E raw \in ClassifyInputs : Classify(raw)
  \/ \E s \in DOMAIN statWatchers : Poll(s)
  \/ WriteSource
  \/ DeleteSource
  \/ CreateSource

Spec == Init /\ [][Next]_vars

\* the paths classified directly while a watch is in use
DirectInputs ==
  { <<"/", "a", "/", "x">>, <<"/", "a", "/", "N", "/", "x">>,
    <<"/", "a", "/", "z">> }

\* the watch file system wrapper over the classifier
NextWatch ==
  \/ \E raw \in DirectInputs : Classify(raw)
  \/ \E w \in WatchInputs : Watch(w)
  \/ \E err \in {"null", "E"}, changed \in BOOLEAN : Callback(err, changed)
  \/ GetFileTimestamps
  \/ GetContextTimestamps
  \/ Close
  \/ Pause
  \/ UnderlyingChange

SpecWatch == Init /\ [][NextWatch]_vars

\* the local files whose sources resolve to DynSource
TickInputs == { <<"/", "a", "/", "x">>, <<"/", "a", "/", "v">> }

\* the mirror at work: the source changes more often than in Next
NextTick ==
  \/ \E raw \in TickInputs : Classify(raw)
  \/ \E s \in DOMAIN statWatchers : Poll(s)
  \/ WriteSourceBelow(MaxTickVer)
  \/ DeleteSource
  \/ CreateSourceBelow(MaxTickVer)

SpecTick == Init /\ [][NextTick]_vars

\* a watch build: the classifier, the mirror and the watch wrapper together
NextAll ==
  \/ \E raw \in DirectInputs : Classify(raw)
  \/ \E s \in DOMAIN statWatchers : Poll(s)
  \/ WriteSource
  \/ DeleteSource
  \/ CreateSource
  \/ \E w \in WatchInputs : Watch(w)
  \/ \E err \in {"null", "E"}, changed \in BOOLEAN : Callback(err, changed)
  \/ GetFileTimestamps
  \/ GetContextTimestamps
  \/ Close
  \/ Pause
  \/ UnderlyingChange

SpecAll == Init /\ [][NextAll]_vars

\* ------------------------------------------------------------ FrontEndPlugin
\* the directory new FrontEndPlugin(buildDir, jlab.staticDir) publishes to
StaticDirPath == "/s"

\* the entries a build can leave in buildDir
BuildNames == {"i.js", "m.js"}

\* entries of staticDir that no build writes: one left by an earlier run,
\* one put there between two emissions
OldEntry == "old"
StrayEntry == "t"

\* the plugin and the destination directory, as the afterEmit callback finds them
PluginNow == [first |-> first, destExists |-> destExists, destEntries |-> destEntries]

\* a callback that removes the destination in every emission that finds it
AfterEmitAlwaysRemove(p, ok, done) ==
  IF staticDir = ""
    THEN [first |-> p.first, destExists |-> p.destExists,
          destEntries |-> p.destEntries, removed |-> FALSE, value |-> "return"]
    ELSE [first |-> FALSE,
          destExists |-> IF ok THEN TRUE ELSE done # {},
          destEntries |-> IF ok THEN buildEntries ELSE done,
          removed |-> p.destExists,
          value |-> IF ok THEN "return" ELSE "throw"]

\* a callback that clears _first only after the copy has returned
AfterEmitResetAfterCopy(p, ok, done) ==
  IF staticDir = ""
    THEN [first |-> p.first, destExists |-> p.destExists,
          destEntries |-> p.destEntries, removed |-> FALSE, value |-> "return"]
    ELSE LET removed == p.first /\ p.destExists
             kept == IF removed THEN {} ELSE p.destEntries
         IN  [first |-> IF ok THEN FALSE ELSE p.first,
              destExists |-> IF ok THEN TRUE
                             ELSE (p.destExists /\ ~removed) \/ done # {},
              destEntries |-> kept \cup (IF ok THEN buildEntries ELSE done),
              removed |-> removed,
              value |-> IF ok THEN "return" ELSE "throw"]

\* the callback apply() taps on afterEmit. copySync(buildDir, staticDir)
\* creates the destination and writes every entry of buildDir into it; with
\* ok = FALSE it throws after it has written the entries of done.
\* existsSync and removeSync are taken to return
AfterEmit(p, ok, done) ==
  IF staticDir = ""
    THEN [first |-> p.first, destExists |-> p.destExists,
          destEntries |-> p.destEntries, removed |-> FALSE, value |-> "return"]
    ELSE LET removed == p.first /\ p.destExists
             kept == IF removed THEN {} ELSE p.destEntries
         IN  [first |-> FALSE,
              destExists |-> IF ok THEN TRUE
                             ELSE (p.destExists /\ ~removed) \/ done # {},
              destEntries |-> kept \cup (IF ok THEN buildEntries ELSE done),
              removed |-> removed,
              value |-> IF ok THEN "return" ELSE "throw"]

\* the construction of the plugin, with the directories as it may find them
InitPublish ==
  /\ watched = <<RootA, RootB>>
  /\ watchedPackages = LinkedDirs
  /\ ignoreCache = << >>
  /\ listeners = EmptyBag
  /\ statWatchers = << >>
  /\ srcExists = TRUE
  /\ srcVer = 1
  /\ localContent = [d \in LocalDests |-> 0]
  /\ consoleErrors = 0
  /\ watcher = NoWatcher
  /\ uTime = 7
  /\ out = [op |-> "none"]
  /\ staticDir \in {"", StaticDirPath}
  /\ first = TRUE
  /\ destExists \in BOOLEAN
  /\ destEntries \in (IF destExists THEN SUBSET {OldEntry} ELSE {{}})
  /\ buildEntries \in (SUBSET BuildNames) \ {{}}
  /\ emitted = << >>

\* the compilation emits: the afterEmit callback runs
Emit ==
  /\ Len(emitted) < MaxEmits
  /\ \E ok \in BOOLEAN :
     \E done \in (IF ok THEN {buildEntries} ELSE (SUBSET buildEntries) \ {buildEntries}) :
     \E r \in {AfterEmit(PluginNow, ok, done)} :
       /\ first' = r.first
       /\ destExists' = r.destExists
       /\ destEntries' = r.destEntries
       /\ emitted' = Append(emitted, [value |-> r.value, removed |-> r.removed,
                                      existed |-> destExists])
       /\ out' = [op |-> "afterEmit", value |-> r.value]
  /\ UNCHANGED <<classifier, staticDir, buildEntries>>

\* a compilation writes a new build output into buildDir
Rebuild ==
  /\ \E b \in (SUBSET BuildNames) \ {{}, buildEntries} : buildEntries' = b
  /\ UNCHANGED <<classifier, out, staticDir, first, destExists, destEntries, emitted>>

\* something else puts an entry into the destination between two emissions
AddStray ==
  /\ destExists
  /\ StrayEntry \notin destEntries
  /\ destEntries' = destEntries \cup {StrayEntry}
  /\ UNCHANGED <<classifier, out, staticDir, first, destExists, buildEntries, emitted>>

NextPublish ==
  \/ Emit
  \/ Rebuild
  \/ AddStray

SpecPublish == InitPublish /\ [][NextPublish]_vars

\* ------------------------------------------------- vocabulary of the claims
\* the number of listeners that copy to local path p
TasksFor(p) ==
  BagCardinality([l \in { m \in BagToSet(listeners) : m.localPath = p }
                    |-> CopiesIn(l, listeners)])

\* the number of listeners that copy from source s
TasksFrom(s) ==
  BagCardinality([l \in { m \in BagToSet(listeners) : m.source = s }
                    |-> CopiesIn(l, listeners)])

\* path lies strictly inside root: root + separator is a prefix of it
StrictlyInside(path, root) == StartsWith(path, root \o SEP)

\* the segments of path after root, for a path strictly inside root
SuffixSegments(path, root) == Segments(SubSeq(path, Len(root) + 2, Len(path)))

\* raw resolves to a path strictly inside some registered root, with no
\* segment of its suffix equal to 'node_modules'
CleanInside(raw) ==
  \E i \in 1..Len(watched) :
    LET root == watched[i].rootPath
        path == Resolve(raw)
    IN  /\ StrictlyInside(path, root)
        /\ \A g \in Range(SuffixSegments(path, root)) : g # Marker

\* raw resolves to a path that is no registered root and inside none
Outside(raw) ==
  \A i \in 1..Len(watched) :
    /\ Resolve(raw) # watched[i].rootPath
    /\ ~StrictlyInside(Resolve(raw), watched[i].rootPath)

\* raw is a regular file that the first root containing it accepts and whose
\* computed source resolves to the same canonical file as raw itself
SameCanonical(raw) ==
  LET path == Resolve(raw)
      i == FirstMatch(path)
      rest == Slice(path, StrLen(watched[i].rootPath))
      source == RealpathSync(PathJoin(watchedPackages[watched[i].name], rest))
  IN  /\ i # 0
      /\ ~HasMarker(rest)
      /\ StatSync(path) = "file"
      /\ source # ENOENT
      /\ source = RealpathSync(path)

\* the listeners registered on source s
ListenersOf(s) == { l \in BagToSet(listeners) : l.source = s }

\* this step is a poll of source s that finds the file changed and runs the
\* listeners with the file present
CopyingTick(s) ==
  /\ s \in DOMAIN statWatchers
  /\ statWatchers[s] # -1
  /\ statWatchers'[s] # statWatchers[s]
  /\ statWatchers'[s] # 0

\* this step is a poll of source s that finds the file gone
GoneTick(s) ==
  /\ s \in DOMAIN statWatchers
  /\ statWatchers[s] # 0
  /\ statWatchers'[s] = 0

\* the call ignored(raw) hands raw to maybeSync: the first root that matches
\* it finds no 'node_modules' in the rest of the path
ReachesMaybeSync(raw) ==
  LET path == Resolve(raw)
      i == FirstMatch(path)
  IN  /\ i # 0
      /\ ~HasMarker(Slice(path, StrLen(watched[i].rootPath)))

\* the first registered root, in the configured order, that is path or has
\* path strictly inside it (0: none)
FirstContaining(path) ==
  LET S == { i \in 1..Len(watched) :
               path = watched[i].rootPath \/ StrictlyInside(path, watched[i].rootPath) }
  IN  IF S = {} THEN 0 ELSE CHOOSE i \in S : \A j \in S : i <= j

\* a segment of path after root i equals 'node_modules'
MarkerSegmentAfter(path, i) ==
  /\ path # watched[i].rootPath
  /\ \E g \in Range(SuffixSegments(path, watched[i].rootPath)) : g = Marker

\* ------------------------------------------------------------------ claims
\* C1: a path strictly inside a registered root whose suffix has no segment
\* equal to 'node_modules' is classified not ignored by every call, the
\* first and the later ones.
C1_CleanInsideNeverIgnored ==
  (out.op = "ignored" /\ CleanInside(out.path)) => out.value = "false"

\* C2: a path that is neither a registered root nor nested under root +
\* separator of one is classified ignored, and no mirror task exists for it.
C2_OutsideIgnoredNoTask ==
  (out.op = "ignored" /\ Outside(out.path)) =>
    (out.value = "true" /\ TasksFor(Resolve(out.path)) = 0)

\* C3: in every watch() the ignored list and the list passed to the wrapped
\* watch are disjoint and together are the input list, for files and for
\* directories, as the classifier decides; no ignored path is passed on.
C3_WatchPartition ==
  watcher.status # "none" =>
    /\ Range(watcher.ignoredFiles) \cap Range(watcher.files) = {}
    /\ Range(watcher.ignoredFiles) \cup Range(watcher.files) = Range(watcher.inFiles)
    /\ Len(watcher.ignoredFiles) + Len(watcher.files) = Len(watcher.inFiles)
    /\ Range(watcher.ignoredDirs) \cap Range(watcher.dirs) = {}
    /\ Range(watcher.ignoredDirs) \cup Range(watcher.dirs) = Range(watcher.inDirs)
    /\ Len(watcher.ignoredDirs) + Len(watcher.dirs) = Len(watcher.inDirs)
    /\ \A q \in Range(watcher.files) \cup Range(watcher.dirs) :
         Resolve(q) \in DOMAIN ignoreCache /\ ~ignoreCache[Resolve(q)]
    /\ \A q \in Range(watcher.ignoredFiles) \cup Range(watcher.ignoredDirs) :
         Resolve(q) \in DOMAIN ignoreCache /\ ignoreCache[Resolve(q)]

C3_Witness ==
  /\ watcher.status = "watching"
  /\ watcher.ignoredFiles # <<>>
  /\ watcher.files # <<>>
  /\ out = [op |-> "watch", value |-> "handle"]

\* C4: a batch without error calls onChange exactly once, with every ignored
\* file at 1 in fileTimestamps and every ignored directory at 1 in
\* dirTimestamps, and the modified, missing and removed lists as supplied.
C4_OverlayOnSuccess ==
  (out.op = "callback" /\ out.supplied[1] = "null") =>
    /\ Len(out.onChange) = 1
    /\ Len(out.onChange[1]) = 7
    /\ out.onChange[1][1] = "null"
    /\ \A q \in Range(watcher.ignoredFiles) :
         q \in DOMAIN out.onChange[1][5] /\ out.onChange[1][5][q] = 1
    /\ \A q \in Range(watcher.ignoredDirs) :
         q \in DOMAIN out.onChange[1][6] /\ out.onChange[1][6][q] = 1
    /\ out.onChange[1][2] = out.supplied[2]
    /\ out.onChange[1][3] = out.supplied[3]
    /\ out.onChange[1][4] = out.supplied[4]
    /\ out.onChange[1][7] = out.supplied[7]

C4_Witness ==
  /\ out.op = "callback"
  /\ out.supplied[1] = "null"
  /\ out.supplied[7] # <<>>
  /\ watcher.ignoredFiles # <<>>
  /\ watcher.ignoredDirs # <<>>

\* C5: every call of getFileTimestamps (getContextTimestamps) returns 1 for
\* every ignored path of the files (dirs) list and, for every other path of
\* the list, the value the wrapped watcher reports at that call.
C5_AccessorsOverlayFresh ==
  [][ /\ (out'.op = "getFileTimestamps" /\ uTime' = uTime) =>
           \A q \in Range(watcher.inFiles) :
             /\ q \in DOMAIN out'.result
             /\ out'.result[q] =
                  IF ignoreCache[Resolve(q)] THEN 1 ELSE uTime
      /\ (out'.op = "getContextTimestamps" /\ uTime' = uTime) =>
           \A q \in Range(watcher.inDirs) :
             /\ q \in DOMAIN out'.result
             /\ out'.result[q] =
                  IF ignoreCache[Resolve(q)] THEN 1 ELSE uTime ]_vars

C5_Witness ==
  /\ out.op = "getFileTimestamps"
  /\ watcher.status = "closed"
  /\ watcher.ignoredFiles # <<>>
  /\ watcher.files # <<>>
  /\ uTime = 8
  /\ out.result[watcher.files[1]] = 8
  /\ out.result[watcher.ignoredFiles[1]] = 1

\* C6: a batch with an error calls onChange exactly once, with that error
\* alone, and leaves both timestamp maps as the wrapped watcher supplied them.
C6_ErrorPassedNoOverlay ==
  (out.op = "callback" /\ out.supplied[1] # "null") =>
    /\ out.onChange = << <<out.supplied[1]>> >>
    /\ out.fileTimestamps = out.supplied[5]
    /\ out.dirTimestamps = out.supplied[6]

C6_Witness ==
  /\ out.op = "callback"
  /\ out.supplied[1] = "E"
  /\ watcher.ignoredFiles # <<>>
  /\ watcher.ignoredDirs # <<>>
  /\ out.onChange = << <<"E">> >>

\* C7: however often a path is classified, directly or by watch() calls
\* whose lists contain it, no path has two mirror tasks, and a path that was
\* classified and is a regular file with a distinct source has exactly one.
C7_OneTaskPerPath ==
  /\ \A l \in BagToSet(listeners) : TasksFor(l.localPath) = 1
  /\ \A q \in DOMAIN ignoreCache :
       (~ignoreCache[q] /\ StatSync(q) = "file" /\ ~SameCanonical(q)) =>
         TasksFor(q) = 1

C7_Witness ==
  /\ out = [op |-> "ignored", path |-> <<"/", "a", "/", "x">>, value |-> "false"]
  /\ watcher.status = "watching"
  /\ <<"/", "a", "/", "x">> \in Range(watcher.files)
  /\ <<"/", "a", "/", ".", "/", "x">> \in Range(watcher.files)
  /\ TasksFor(<<"/", "a", "/", "x">>) = 1

\* C8 as stated: there is at most one mirror task per canonical source; a
\* second local path with the same canonical source gets no task.
C8_OneTaskPerSource ==
  \A s \in DOMAIN statWatchers : TasksFrom(s) <= 1

\* C8 amended: there is one stat watcher per canonical source and at most
\* one listener per pair of source and local path; every classified local
\* file with a distinct source has its own listener, also when another local
\* path already has one on the same source.
C8_OneWatcherPerSourceOneTaskPerPair ==
  /\ \A l \in BagToSet(listeners) :
       CopiesIn(l, listeners) = 1 /\ l.source \in DOMAIN statWatchers
  /\ \A s \in DOMAIN statWatchers : TasksFrom(s) >= 1
  /\ \A d \in LocalDests :
       (d \in DOMAIN ignoreCache /\ ~ignoreCache[d]) =>
         [source |-> DynSource, localPath |-> d] \in BagToSet(listeners)

C8_Witness ==
  /\ TasksFrom(DynSource) = 2
  /\ \A d \in LocalDests : TasksFor(d) = 1

\* C9: a local file classified while its source exists with a different
\* content has the source's content after the next poll tick of its task,
\* even when the source is not modified after the task was registered.
C9_SyncedAfterFirstTick ==
  [][ \A l \in BagToSet(listeners) :
        ( /\ l.source = DynSource
          /\ l.localPath \in LocalDests
          /\ statWatchers[DynSource] = -1
          /\ statWatchers'[DynSource] >= 1 )
        => localContent'[l.localPath] = srcVer' ]_vars

\* C10: when the local path and its computed source resolve to the same
\* canonical file, the call returns not ignored and the number of mirror
\* tasks is unchanged by it.
C10_SameFileNoTask ==
  [][ (out'.op = "ignored" /\ SameCanonical(out'.path)) =>
        /\ out'.value = "false"
        /\ BagCardinality(listeners') = BagCardinality(listeners)
        /\ listeners' = listeners ]_vars

C10_Witness ==
  /\ out.op = "ignored"
  /\ SameCanonical(out.path)
  /\ Resolve(out.path) \in DOMAIN Links
  /\ out.value = "false"
  /\ listeners # EmptyBag

C12_CopyFailureReportedTaskKept ==
  [][/\ \A s \in DOMAIN statWatchers :
          CopyingTick(s) =>
            LET failed == { l \in ListenersOf(s) : localContent'[l.localPath] # srcVer }
            IN  /\ consoleErrors' = consoleErrors + Cardinality(failed)
                /\ \A l \in failed : localContent'[l.localPath] = localContent[l.localPath]
                /\ listeners' = listeners
                /\ DOMAIN statWatchers' = DOMAIN statWatchers
                /\ out' = out
     /\ \A d \in LocalDests :
          localContent'[d] # localContent[d] => (srcExists /\ localContent'[d] = srcVer)]_vars

\* the only task of the source has failed once, at an earlier version of the
\* source, and a later tick has made its destination equal to the source
C12_Witness ==
  /\ consoleErrors = 1
  /\ TasksFrom(DynSource) = 1
  /\ srcExists /\ srcVer = MaxTickVer
  /\ \A l \in ListenersOf(DynSource) : localContent[l.localPath] = srcVer

\* C16: a tick that finds its source gone copies nothing, reports nothing,
\* leaves every destination and every task as they were; the next tick that
\* finds the source again runs every task of it: each destination equals the
\* source or one error is reported for it.
C16_GoneTickKeepsTask ==
  [][\A s \in DOMAIN statWatchers :
       /\ GoneTick(s) =>
            /\ localContent' = localContent
            /\ consoleErrors' = consoleErrors
            /\ listeners' = listeners
            /\ DOMAIN statWatchers' = DOMAIN statWatchers
       /\ (statWatchers[s] = 0 /\ statWatchers'[s] # 0) =>
            /\ listeners' = listeners
            /\ consoleErrors' = consoleErrors +
                 Cardinality({ l \in ListenersOf(s) : localContent'[l.localPath] # srcVer })]_vars

\* a destination that was copied keeps its content after a tick has seen
\* the source gone, and its task is still registered
C16_Witness ==
  /\ ~srcExists
  /\ DynSource \in DOMAIN statWatchers
  /\ statWatchers[DynSource] = 0
  /\ \E l \in ListenersOf(DynSource) : localContent[l.localPath] = srcVer

\* C13: when ignored hands maybeSync a local path that is not an existing
\* regular file, a directory or a path that does not exist, the call raises
\* nothing and returns false, and no task exists for the path.
C13_NonFileEvaluatedQuietly ==
  (/\ out.op = "ignored"
   /\ ReachesMaybeSync(out.path)
   /\ StatSync(Resolve(out.path)) # "file") =>
    (out.value = "false" /\ TasksFor(Resolve(out.path)) = 0)

\* C14: a path inside a registered root is classified ignored exactly when a
\* whole segment of its suffix after the root equals 'node_modules', and
\* then maybeSync is not called for it: it has no task; 'node_modules' as a
\* part of a longer segment name does not make the path ignored.
C14_IgnoredIffMarkerSegment ==
  (out.op = "ignored" /\ FirstContaining(Resolve(out.path)) # 0) =>
    LET path == Resolve(out.path)
        i == FirstContaining(path)
    IN  /\ (out.value = "true") <=> MarkerSegmentAfter(path, i)
        /\ MarkerSegmentAfter(path, i) => TasksFor(path) = 0

\* C15: the outcome of ignored is decided by the roots and the path alone:
\* a call on the path of the call before it, the roots being the same, has
\* the same outcome, whatever was done to the file system in between.
C15_OutcomeDecidedByRootsAndPath ==
  [][(/\ out.op = "ignored"
      /\ out'.op = "ignored"
      /\ out'.path = out.path
      /\ watched' = watched) => out'.value = out.value]_vars

\* C17: over classify, watch, close, pause, accessor and tick events the
\* cache and the set of mirror tasks only grow: a cached path stays cached
\* with the boolean it has, and no listener and no stat watcher is removed.
C17_CacheAndTasksOnlyGrow ==
  [][/\ \A q \in DOMAIN ignoreCache :
          q \in DOMAIN ignoreCache' /\ ignoreCache'[q] = ignoreCache[q]
     /\ listeners \sqsubseteq listeners'
     /\ DOMAIN statWatchers \subseteq DOMAIN statWatchers']_vars

\* a watch has been closed after a tick of a registered task, and the cache
\* and the task are still there
C17_Witness ==
  /\ watcher.status = "closed"
  /\ BagCardinality(listeners) >= 1
  /\ \E s \in DOMAIN statWatchers : statWatchers[s] # -1
  /\ \E q \in DOMAIN ignoreCache : ignoreCache[q]
  /\ \E q \in DOMAIN ignoreCache : ~ignoreCache[q]

\* C18: the roots are scanned in the configured order and the first root
\* that contains the path decides alone: if a segment of the path after that
\* root is 'node_modules', the path is ignored and has no task, also when a
\* later root contains the path with no such segment after it.
C18_FirstRootDecides ==
  (out.op = "ignored" /\ FirstContaining(Resolve(out.path)) # 0) =>
    LET path == Resolve(out.path)
    IN  MarkerSegmentAfter(path, FirstContaining(path)) =>
          (out.value = "true" /\ TasksFor(path) = 0 /\ ignoreCache[path])

\* a file of a root nested under the node_modules of the root scanned
\* before it has been classified: ignored, with no task
C18_Witness ==
  /\ out.op = "ignored"
  /\ out.value = "true"
  /\ \E i, j \in 1..Len(watched) :
       /\ i < j
       /\ FirstContaining(Resolve(out.path)) = i
       /\ MarkerSegmentAfter(Resolve(out.path), i)
       /\ StrictlyInside(Resolve(out.path), watched[j].rootPath)
       /\ ~MarkerSegmentAfter(Resolve(out.path), j)
  /\ StatSync(Resolve(out.path)) = "file"
  /\ TasksFor(Resolve(out.path)) = 0

\* C19: a call of ignored that ends in an exception of maybeSync leaves the
\* cache and the tasks as they were, with no cache entry for its path; the
\* next call on the same path that returns finds the path uncached,
\* evaluates it, caches it, and registers its task if it returns false for
\* a file with a separate source.
C19_FailedCallCachesNothing ==
  [][/\ (out'.op = "ignored" /\ out'.value = "throw") =>
          /\ ignoreCache' = ignoreCache
          /\ listeners' = listeners
          /\ Resolve(out'.path) \notin DOMAIN ignoreCache'
     /\ (/\ out.op = "ignored" /\ out.value = "throw"
         /\ out'.op = "ignored" /\ out'.path = out.path
         /\ out'.value # "throw") =>
          /\ Resolve(out.path) \notin DOMAIN ignoreCache
          /\ Resolve(out.path) \in DOMAIN ignoreCache'
          /\ ignoreCache'[Resolve(out.path)] = (out'.value = "true")
          /\ BagCardinality(listeners') = BagCardinality(listeners) + 1]_vars

\* a call on a regular file whose linked source is missing has thrown, after
\* another path was cached: its path is not in the cache and has no task
C19_Witness ==
  /\ out.op = "ignored"
  /\ out.value = "throw"
  /\ StatSync(Resolve(out.path)) = "file"
  /\ ~srcExists
  /\ ignoreCache # << >>
  /\ Resolve(out.path) \notin DOMAIN ignoreCache
  /\ TasksFor(Resolve(out.path)) = 0

C20_WitnessNoDestination ==
  /\ staticDir = ""
  /\ Len(emitted) >= 2
  /\ first

====
